---- MODULE Spec2Model ----
(***************************************************************************)
(* Gamification progress engine of speechpal (therapy app).                *)
(*                                                                         *)
(* One user ("u1") with a UserProfile row, the SpeechSession,              *)
(* UnlockedCustomization, UserAchievement and WebhookLog tables, and a     *)
(* pool of request handlers that run the entry points concurrently:        *)
(*   - the live-connection analyze_speech message (consumers.py),          *)
(*   - the award_xp and conversation_end webhooks (views.py),              *)
(*   - the REST speech-session create (views.py).                          *)
(* Every database statement that touches shared rows is one step, so the   *)
(* read-profile / save-profile races of the handlers are visible.  The     *)
(* database runs in autocommit mode (Django's default) except inside       *)
(* transaction.atomic() of the live-connection path, whose                 *)
(* select_for_update() row lock is the variable rowLock.                   *)
(***************************************************************************)
EXTENDS Integers, Sequences, FiniteSets, TLC

\* ------------------------------------------------------------------ bounds
MaxEvents == 2
NumProcs == 2

Procs == 1..NumProcs

\* ------------------------------------------------------------- input sets
NoKey == "null"
AwardKeys == {"k1", "k2"}
ConvKeys == {"k1"}
RestKeys == {"k3"}
\* user_id of a webhook payload: absent, the id of no user, a string that is
\* not a number, the id of the user
UserIds == {"none", "ghost", "abc", "u1"}
HardWord == [difficulty |-> "hard", score |-> 90]
AwardInputs == {HardWord, [difficulty |-> "easy", score |-> -100]}
NoAnalysis == [present |-> FALSE, accuracy |-> 0, words |-> 0, minutes |-> 0]
ShortTalk == [present |-> TRUE, accuracy |-> 100, words |-> 5, minutes |-> 0]
LongTalk == [present |-> TRUE, accuracy |-> 100, words |-> 25, minutes |-> 6]
ConvInputs == {NoAnalysis, ShortTalk, LongTalk}
\* every award_xp payload with a known difficulty and a score of 0..100
Difficulties == {"easy", "medium", "hard"}
Scores == 0..100
\* conversation_end analysis payloads: every accuracy, words and minutes on
\* both sides of the two caps
Accuracies == 0..100
WordCounts == {0, 10, 25, 26}
Durations == {0, 1, 6, 7}
\* bodies of a partial update of the profile: each writable field is left
\* out ("keep") or given a value
FlagValues == {"keep", "true", "false"}
ProfileBodies == [has_completed_onboarding : FlagValues,
                  has_active_avatar : FlagValues]
\* XP totals up to the webhook helper's level 6
MaxXp == 2000
XpTotals == 0..MaxXp
\* events for runs of whole handlers one after the other: analyze_speech
\* messages and award_xp calls, each with a key of its own
SeqEvents ==
    {[kind |-> "ws", xp |-> g, difficulty |-> "", score |-> 0] : g \in {15, 100}}
    \cup {[kind |-> "award", xp |-> 0, difficulty |-> d, score |-> sc] :
             d \in Difficulties, sc \in {0, 60, 90}}
\* starting profiles: a new user after 0..MaxWarmUp messages of 15 XP
MaxWarmUp == 6
WsTexts == {"", "hi"}
WsStamps == {1, 2}
WsXps == {15, 100}
RestXps == {250}
SmallXps == {60}
RestWords == 10
RestSeconds == 60
\* overall_score of a REST session (its three scores alike) and of an
\* analysis of the live connection
RestOverall == 80
WsOverall == 70
\* ids the client gives its conversations
ConversationIds == {"c1", "c2", "c3"}
\* conversation-feedback bodies: engagement_level, duration_seconds, number
\* of speech_improvements_noted
QuietFeedback == [engagement_level |-> "low", duration_seconds |-> 0,
                  improvements |-> 0]
KeenFeedback == [engagement_level |-> "high", duration_seconds |-> 120,
                 improvements |-> 0]
FeedbackInputs == {QuietFeedback, KeenFeedback}

\* ---------------------------------------------------------- pure helpers
Min(a, b) == IF a <= b THEN a ELSE b

\* Python int(): truncation toward zero of num/den, den > 0
TruncDiv(num, den) == IF num >= 0 THEN num \div den ELSE -((-num) \div den)

difficulty_multipliers(d) ==
    CASE d = "easy" -> 5
      [] d = "medium" -> 10
      [] d = "hard" -> 15
      [] OTHER -> 5

\* int(base_xp * (score / 100.0)); the float product truncates to the same
\* integer as the exact quotient for each multiplier and every score used
_calculate_base_xp(difficulty, score) ==
    TruncDiv(difficulty_multipliers(difficulty) * score, 100)

_calculate_bonus_xp_strict(score) ==
    IF score > 80 THEN 10 ELSE IF score > 60 THEN 5 ELSE 0

_calculate_bonus_xp(score) ==
    IF score >= 80 THEN 10 ELSE IF score >= 60 THEN 5 ELSE 0

\* total_xp of the award_xp webhook
award_total_xp(difficulty, score) ==
    _calculate_base_xp(difficulty, score) + _calculate_bonus_xp(score)

\* accuracy_xp = int(accuracy * 0.5): multiples of 0.5 are exact floats
_calculate_conversation_xp(a) ==
    IF a.present
    THEN 20 + TruncDiv(a.accuracy * 5, 10) + Min(a.words * 2, 50)
            + Min(a.minutes * 5, 30)
    ELSE 20

RECURSIVE HigherLevel(_, _)
HigherLevel(level, remaining_xp) ==
    IF remaining_xp >= level * 150
    THEN HigherLevel(level + 1, remaining_xp - level * 150)
    ELSE level

_calculate_level_from_xp(xp) ==
    IF xp < 100 THEN 1
    ELSE IF xp < 250 THEN 2
    ELSE IF xp < 450 THEN 3
    ELSE IF xp < 700 THEN 4
    ELSE IF xp < 1000 THEN 5
    ELSE HigherLevel(5, xp - 1000)

\* UserProfile._calculate_xp_for_level: the staged threshold
_calculate_xp_for_level(level) ==
    IF level = 1 THEN 0
    ELSE IF level <= 5 THEN (level - 1) * 100
    ELSE 400 + (level - 5) * 150 + (level - 5) * (level - 6) * 25

\* largest level whose staged threshold is <= xp (level 1 for xp < 0)
RECURSIVE LevelFrom(_, _)
LevelFrom(level, xp) ==
    IF _calculate_xp_for_level(level + 1) <= xp
    THEN LevelFrom(level + 1, xp)
    ELSE level

level_for_xp(xp) == LevelFrom(1, xp)

\* request_id = md5("{user.id}_{text}_{timestamp}"): one digest per message
_generate_request_id(text, timestamp) ==
    IF timestamp = 1 THEN "r1_" \o text ELSE "r2_" \o text

\* level_requirements of _unlock_customizations_for_level, in dict order
level_requirements == <<
    [type |-> "body_color", value |-> "brown", lvl |-> 1],
    [type |-> "body_color", value |-> "golden", lvl |-> 1],
    [type |-> "body_color", value |-> "black", lvl |-> 2],
    [type |-> "body_color", value |-> "white", lvl |-> 3],
    [type |-> "body_color", value |-> "spotted", lvl |-> 5],
    [type |-> "body_color", value |-> "blue", lvl |-> 10],
    [type |-> "body_color", value |-> "purple", lvl |-> 15],
    [type |-> "body_color", value |-> "rainbow", lvl |-> 20],
    [type |-> "eye_color", value |-> "brown", lvl |-> 1],
    [type |-> "eye_color", value |-> "blue", lvl |-> 2],
    [type |-> "eye_color", value |-> "green", lvl |-> 3],
    [type |-> "eye_color", value |-> "amber", lvl |-> 4],
    [type |-> "eye_color", value |-> "purple", lvl |-> 12],
    [type |-> "eye_color", value |-> "rainbow", lvl |-> 18],
    [type |-> "accessory", value |-> "none", lvl |-> 1],
    [type |-> "accessory", value |-> "collar", lvl |-> 2],
    [type |-> "accessory", value |-> "hat", lvl |-> 4],
    [type |-> "accessory", value |-> "bow_tie", lvl |-> 6],
    [type |-> "accessory", value |-> "glasses", lvl |-> 8],
    [type |-> "accessory", value |-> "cape", lvl |-> 12],
    [type |-> "accessory", value |-> "crown", lvl |-> 16],
    [type |-> "accessory", value |-> "wings", lvl |-> 20] >>

\* ------------------------------------------------------------------ state
VARIABLES
    profile,      \* the UserProfile row of u1
    sessions,     \* SpeechSession rows of u1, in insertion order
    unlocked,     \* UnlockedCustomization rows of u1
    achieved,     \* UserAchievement rows of u1, in insertion order
    logs,         \* WebhookLog rows, in insertion order
    rowLock,      \* handler holding the select_for_update lock, 0 if none
    processed,    \* processed_requests of each handler's consumer
    pc,           \* position of each handler
    loc,          \* local variables of each handler
    last,         \* the latest response a handler sent
    events,       \* number of requests received so far
    rewardAdds,   \* times each achievement's reward was added to a profile
    calc,         \* a helper function under test: arguments and result
    convs         \* ConversationSession row of u1 per conversation id

vars == <<profile, sessions, unlocked, achieved, logs, rowLock, processed,
          pc, loc, last, events, rewardAdds, calc, convs>>


\* ------------------------------------------------------- table operations
\* improvement_score is kept as the exact fraction num / den
NewProfile == [xp |-> 0, level |-> 1, time |-> 0,
               improvement_score |-> [num |-> 0, den |-> 1],
               has_completed_onboarding |-> FALSE, has_active_avatar |-> FALSE]

\* a ConversationSession row as get_or_create makes it: the model defaults,
\* session_rating in tenths
NoConversation == [created |-> FALSE, duration |-> 0, experience_earned |-> 0,
                   session_rating |-> 0]
NewConversation == [NoConversation EXCEPT !.created = TRUE]

SessionKeys == {sessions[i].key : i \in DOMAIN sessions}

\* the SpeechSession table without its unique_together constraint
SessionInsertOk_unconstrained(key) == TRUE

\* unique_together = ['user', 'session_id']; NULL session ids never collide
SessionInsertOk(key) == key = NoKey \/ key \notin SessionKeys

SpeechSessionRow(key, xp, words, secs, overall) ==
    [key |-> key, xp |-> xp, words |-> words, secs |-> secs,
     overall |-> overall]

\* the UserAchievement table without its unique_together constraint
AchievementInsertOk_unconstrained(a) == TRUE

\* unique_together = ['user', 'achievement']
AchievementInsertOk(a) == \A i \in DOMAIN achieved : achieved[i] # a

SameOption(r, e) == r.type = e.type /\ r.value = e.value

\* the loop of _unlock_customizations_for_level over rows: each entry is
\* get_or_create(user, type, value, level_required): found when the very
\* row exists, IntegrityError when the (user, type, value) key exists with
\* another level_required, inserted otherwise.  The loop stops at the first
\* error and keeps what it inserted (autocommit).
RECURSIVE UnlockLoop(_, _, _)
UnlockLoop(rows, i, level) ==
    IF i > Len(level_requirements) THEN [rows |-> rows, ok |-> TRUE]
    ELSE LET e == level_requirements[i] IN
         IF level < e.lvl \/ e \in rows THEN UnlockLoop(rows, i + 1, level)
         ELSE IF \E r \in rows : SameOption(r, e)
              THEN [rows |-> rows, ok |-> FALSE]
              ELSE UnlockLoop(rows \cup {e}, i + 1, level)

_unlock_customizations_for_level(rows, level) == UnlockLoop(rows, 1, level)

\* an update_webhook_log that sets the status but never saves the row
update_webhook_log_unsaved(h, status) == logs

\* WebhookLogger.update_webhook_log on the handler's row; every caller
\* guards it with "if webhook_log:", and a save() that raises (the row is
\* stuck) is caught and printed
update_webhook_log(h, status) ==
    IF h # 0 /\ ~logs[h].stuck THEN [logs EXCEPT ![h].status = status]
    ELSE logs

\* a log_webhook_call that lets the failure of its insert escape
log_webhook_call_raising(outcome) ==
    [row |-> outcome # "failed", stuck |-> outcome = "stuck",
     raised |-> outcome = "failed"]

\* WebhookLogger.log_webhook_call: the insert of the pending row goes
\* through ("saved"; "stuck" when every later save() of the row will raise)
\* or raises ("failed"), which is caught: the caller gets None
log_webhook_call(outcome) ==
    [row |-> outcome # "failed", stuck |-> outcome = "stuck",
     raised |-> FALSE]

\* the Achievement catalog (admin-defined rows, static at run time)
NoReward == [type |-> "", value |-> ""]
Achievements == <<
    [id |-> "talker", type |-> "words_spoken", target |-> 10,
     reward |-> 50, custom |-> NoReward],
    [id |-> "level2", type |-> "level_milestone", target |-> 2,
     reward |-> 25, custom |-> [type |-> "accessory", value |-> "collar"]] >>

AchievementIds == {Achievements[i].id : i \in DOMAIN Achievements}

AchievementOf(id) ==
    CHOOSE a \in {Achievements[i] : i \in DOMAIN Achievements} : a.id = id

\* get_or_create(user, type, value, defaults={'level_required': level})
get_or_create_default(rows, type, value, level) ==
    IF \E r \in rows : r.type = type /\ r.value = value THEN rows
    ELSE rows \cup {[type |-> type, value |-> value, lvl |-> level]}

\* _send_xp_update_to_websocket: group_send to the user's group inside
\* try / except Exception; delivered is whether the channel layer took the
\* message (no channel layer, transport error: FALSE)
_send_xp_update_to_websocket_raising(delivered) ==
    [sent |-> delivered, raised |-> ~delivered]

_send_xp_update_to_websocket(delivered) ==
    [sent |-> delivered, raised |-> FALSE]

PushNote(push) == IF push.sent THEN "sent" ELSE "failed"

\* level_unlocks of get_newly_unlocked_items
level_unlocks == <<
    [lvl |-> 2, type |-> "body_color", value |-> "golden"],
    [lvl |-> 3, type |-> "eye_color", value |-> "blue"],
    [lvl |-> 4, type |-> "accessory", value |-> "hat"],
    [lvl |-> 5, type |-> "body_color", value |-> "white"],
    [lvl |-> 6, type |-> "eye_color", value |-> "green"],
    [lvl |-> 7, type |-> "accessory", value |-> "bow_tie"],
    [lvl |-> 8, type |-> "body_color", value |-> "spotted"],
    [lvl |-> 9, type |-> "eye_color", value |-> "amber"],
    [lvl |-> 10, type |-> "accessory", value |-> "crown"] >>

\* get_newly_unlocked_items: get_or_create(user, type, value) with no
\* level_required finds an existing row ("confirmed") or attempts an insert
\* that violates NOT NULL ("raised"; the method catches it and returns [])
get_newly_unlocked_items(rows, new_level) ==
    IF \A i \in DOMAIN level_unlocks : level_unlocks[i].lvl # new_level
    THEN "none"
    ELSE LET item == level_unlocks[CHOOSE i \in DOMAIN level_unlocks :
                                     level_unlocks[i].lvl = new_level]
         IN IF \E r \in rows : SameOption(r, item) THEN "confirmed"
            ELSE "raised"

\* ---------------------------------------------------------------- locals
NoLocals == [ep |-> "none", uid |-> "none", key |-> NoKey, dup |-> FALSE,
             xp |-> 0, prof |-> NewProfile, old_level |-> 1,
             new_level |-> 1, log |-> 0, todo |-> <<>>, valid |-> TRUE,
             wrote |-> FALSE, push |-> "none", grant |-> "none",
             rewards |-> 0, score |-> 0, secs |-> 0, rating |-> 0,
             options |-> {}]

Free(p) == pc[p] = "idle"

\* what a finished handler leaves behind: its response (HTTP status or the
\* terminal message of the live connection) with the request it answers
\* (note: the outcome as the handler logs it, wrote: whether it changed rows)
NoResponse == [ep |-> "none", key |-> NoKey, dup |-> FALSE, resp |-> "",
               note |-> "", wrote |-> FALSE, push |-> "none",
               grant |-> "none", rewards |-> 0, options |-> {},
               xp_earned |-> 0, old_level |-> 1, new_level |-> 1,
               user_xp |-> 0, user_level |-> 1]

Response(l, resp, note) ==
    [ep |-> l.ep, key |-> l.key, dup |-> l.dup, resp |-> resp,
     note |-> note, wrote |-> l.wrote, push |-> l.push, grant |-> l.grant,
     rewards |-> l.rewards, options |-> l.options,
     xp_earned |-> l.xp, old_level |-> l.old_level, new_level |-> l.new_level,
     user_xp |-> l.prof.xp, user_level |-> l.prof.level]

\* the handler p answers with resp from the locals l and becomes free
Reply(p, l, resp, note) ==
    /\ last' = Response(l, resp, note)
    /\ loc' = [loc EXCEPT ![p] = NoLocals]
    /\ pc' = [pc EXCEPT ![p] = "idle"]

NoCalc == [fn |-> "none", done |-> FALSE]

Registered ==
    /\ profile = NewProfile
    /\ sessions = <<>>
    /\ unlocked = {}
    /\ achieved = <<>>
    /\ logs = <<>>
    /\ rowLock = 0
    /\ processed = [p \in Procs |-> {}]
    /\ pc = [p \in Procs |-> "idle"]
    /\ loc = [p \in Procs |-> NoLocals]
    /\ last = NoResponse
    /\ events = 0
    /\ rewardAdds = [a \in AchievementIds |-> 0]
    /\ convs = [c \in ConversationIds |-> NoConversation]

Init == Registered /\ calc = NoCalc

\* --------------------------------------------------- award_xp webhook
\* request arrives with a user_id among Callers and a session_id among
\* Keys; log_webhook_call inserts the pending row or, when the insert raises
\* (LogInserts has "failed"), returns None.  The session_id of a call that is
\* turned away at the user_id check is never looked at.
AwardReceive(p, Callers, Keys, LogInserts) ==
    /\ Free(p) /\ events < MaxEvents
    /\ \E uid \in Callers, outcome \in LogInserts :
       \E key \in IF uid = "u1" THEN Keys ELSE {NoKey} :
        LET webhook_log == log_webhook_call(outcome)
            l == [NoLocals EXCEPT !.ep = "award", !.uid = uid, !.key = key,
                        !.dup = (key # NoKey /\ key \in SessionKeys),
                        !.log = IF webhook_log.row THEN Len(logs) + 1
                                ELSE 0]
        IN /\ logs' = IF webhook_log.row
                      THEN Append(logs, [type |-> "award_xp",
                                         status |-> "pending",
                                         stuck |-> webhook_log.stuck])
                      ELSE logs
           /\ IF webhook_log.raised
              THEN Reply(p, l, "500", "log_error")
              ELSE /\ loc' = [loc EXCEPT ![p] = l]
                   /\ pc' = [pc EXCEPT ![p] = "aw_load"]
                   /\ UNCHANGED last
    /\ events' = events + 1
    /\ UNCHANGED <<profile, sessions, unlocked, achieved, rowLock, processed,
                   rewardAdds>>
    /\ UNCHANGED <<calc, convs>>

\* user_id check, User/UserProfile lookup, XP and level computation
AwardLoad(p, Inputs) ==
    /\ pc[p] = "aw_load"
    /\ IF loc[p].uid \in {"none", "ghost"}
       THEN /\ logs' = update_webhook_log(loc[p].log, "error")
            /\ Reply(p, loc[p], IF loc[p].uid = "none" THEN "400" ELSE "404",
                     IF loc[p].uid = "none" THEN "user_id is required"
                     ELSE "User not found")
       ELSE IF loc[p].uid = "abc"
       \* User.objects.get(id='abc') raises ValueError, which only the
       \* outer except clause catches
       THEN /\ logs' = update_webhook_log(loc[p].log, "error")
            /\ Reply(p, loc[p], "500", "value_error")
       ELSE \E inp \in Inputs :
            LET total_xp == award_total_xp(inp.difficulty, inp.score)
                old_level == profile.level
                points == profile.xp + total_xp
                new_level == _calculate_level_from_xp(points)
                level_up == new_level > old_level
            IN /\ loc' = [loc EXCEPT ![p].xp = total_xp,
                            ![p].score = inp.score,
                            ![p].old_level = old_level,
                            ![p].new_level = new_level,
                            ![p].prof = [profile EXCEPT !.xp = points,
                               !.level = IF level_up THEN new_level
                                         ELSE old_level]]
               /\ pc' = [pc EXCEPT ![p] =
                           IF level_up THEN "aw_unlock" ELSE "aw_save"]
               /\ UNCHANGED <<logs, last>>
    /\ UNCHANGED <<profile, sessions, unlocked, achieved, rowLock, processed,
                   events, rewardAdds>>
    /\ UNCHANGED <<calc, convs>>

\* level_up branch: _unlock_customizations_for_level(user, new_level); an
\* IntegrityError lands in the handler's except clause (HTTP 500)
AwardUnlock(p) ==
    /\ pc[p] = "aw_unlock"
    /\ LET res == _unlock_customizations_for_level(unlocked, loc[p].new_level)
           l == [loc[p] EXCEPT !.wrote = @ \/ res.rows # unlocked]
       IN /\ unlocked' = res.rows
          /\ IF res.ok
             THEN /\ pc' = [pc EXCEPT ![p] = "aw_save"]
                  /\ loc' = [loc EXCEPT ![p] = l]
                  /\ UNCHANGED <<logs, last>>
             ELSE /\ logs' = update_webhook_log(loc[p].log, "error")
                  /\ Reply(p, l, "500", "unlock_integrity_error")
    /\ UNCHANGED <<profile, sessions, achieved, rowLock, processed, events,
                   rewardAdds>>
    /\ UNCHANGED <<calc, convs>>

\* profile.save(): writes every field of the handler's in-memory profile;
\* the UPDATE waits while another transaction holds the row lock
AwardSave(p) ==
    /\ pc[p] = "aw_save"
    /\ rowLock = 0
    /\ profile' = loc[p].prof
    /\ loc' = [loc EXCEPT ![p].wrote = TRUE]
    /\ pc' = [pc EXCEPT ![p] = "aw_finish"]
    /\ UNCHANGED <<sessions, unlocked, achieved, logs, rowLock, processed,
                   last, events, rewardAdds>>
    /\ UNCHANGED <<calc, convs>>

\* SpeechSession.objects.create when session_id is given, the best-effort
\* push to the user's group, the log update and the response
AwardFinish(p, Layers) ==
    /\ pc[p] = "aw_finish"
    /\ IF SessionInsertOk(loc[p].key)
       THEN \E delivered \in Layers :
            LET push == _send_xp_update_to_websocket(delivered)
                l == [loc[p] EXCEPT !.push = PushNote(push)]
            IN /\ sessions' = IF loc[p].key = NoKey THEN sessions
                              ELSE Append(sessions,
                                     SpeechSessionRow(loc[p].key, loc[p].xp,
                                                      1, 30, loc[p].score))
               /\ IF push.raised
                  THEN /\ logs' = update_webhook_log(loc[p].log, "error")
                       /\ Reply(p, l, "500", "push_error")
                  ELSE /\ logs' = update_webhook_log(loc[p].log, "success")
                       /\ Reply(p, l, "200", "success")
       ELSE /\ sessions' = sessions
            /\ logs' = update_webhook_log(loc[p].log, "error")
            /\ Reply(p, loc[p], "500", "session_integrity_error")
    /\ UNCHANGED <<profile, unlocked, achieved, rowLock, processed, events,
                   rewardAdds>>
    /\ UNCHANGED <<calc, convs>>

\* --------------------------------------------- conversation_end webhook
ConvReceive(p, Callers, Keys, LogInserts) ==
    /\ Free(p) /\ events < MaxEvents
    /\ \E uid \in Callers, outcome \in LogInserts :
       \E key \in IF uid = "u1" THEN Keys ELSE {NoKey} :
        LET webhook_log == log_webhook_call(outcome)
            l == [NoLocals EXCEPT !.ep = "conv", !.uid = uid, !.key = key,
                        !.log = IF webhook_log.row THEN Len(logs) + 1
                                ELSE 0]
        IN /\ logs' = IF webhook_log.row
                      THEN Append(logs, [type |-> "conversation_end",
                                         status |-> "pending",
                                         stuck |-> webhook_log.stuck])
                      ELSE logs
           /\ IF webhook_log.raised
              THEN Reply(p, l, "500", "log_error")
              ELSE /\ loc' = [loc EXCEPT ![p] = l]
                   /\ pc' = [pc EXCEPT ![p] = "cv_load"]
                   /\ UNCHANGED last
    /\ events' = events + 1
    /\ UNCHANGED <<profile, sessions, unlocked, achieved, rowLock, processed,
                   rewardAdds>>
    /\ UNCHANGED <<calc, convs>>

ConvLoad(p, Inputs) ==
    /\ pc[p] = "cv_load"
    /\ IF loc[p].uid \in {"none", "ghost"}
       THEN /\ logs' = update_webhook_log(loc[p].log, "error")
            /\ Reply(p, loc[p], IF loc[p].uid = "none" THEN "400" ELSE "404",
                     IF loc[p].uid = "none" THEN "user_id is required"
                     ELSE "User not found")
       ELSE IF loc[p].uid = "abc"
       \* User.objects.get(id='abc') raises ValueError, which only the
       \* outer except clause catches
       THEN /\ logs' = update_webhook_log(loc[p].log, "error")
            /\ Reply(p, loc[p], "500", "value_error")
       ELSE \E analysis_results \in Inputs :
            LET total_xp == _calculate_conversation_xp(analysis_results)
                old_level == profile.level
                points == profile.xp + total_xp
                new_level == _calculate_level_from_xp(points)
                level_up == new_level > old_level
            IN /\ loc' = [loc EXCEPT ![p].xp = total_xp,
                            ![p].old_level = old_level,
                            ![p].new_level = new_level,
                            ![p].prof = [profile EXCEPT !.xp = points,
                               !.level = IF level_up THEN new_level
                                         ELSE old_level]]
               /\ pc' = [pc EXCEPT ![p] =
                           IF level_up THEN "cv_unlock" ELSE "cv_save"]
               /\ UNCHANGED <<logs, last>>
    /\ UNCHANGED <<profile, sessions, unlocked, achieved, rowLock, processed,
                   events, rewardAdds>>
    /\ UNCHANGED <<calc, convs>>

ConvUnlock(p) ==
    /\ pc[p] = "cv_unlock"
    /\ LET res == _unlock_customizations_for_level(unlocked, loc[p].new_level)
           l == [loc[p] EXCEPT !.wrote = @ \/ res.rows # unlocked]
       IN /\ unlocked' = res.rows
          /\ IF res.ok
             THEN /\ pc' = [pc EXCEPT ![p] = "cv_save"]
                  /\ loc' = [loc EXCEPT ![p] = l]
                  /\ UNCHANGED <<logs, last>>
             ELSE /\ logs' = update_webhook_log(loc[p].log, "error")
                  /\ Reply(p, l, "500", "unlock_integrity_error")
    /\ UNCHANGED <<profile, sessions, achieved, rowLock, processed, events,
                   rewardAdds>>
    /\ UNCHANGED <<calc, convs>>

ConvSave(p) ==
    /\ pc[p] = "cv_save"
    /\ rowLock = 0
    /\ profile' = loc[p].prof
    /\ loc' = [loc EXCEPT ![p].wrote = TRUE]
    /\ pc' = [pc EXCEPT ![p] = "cv_finish"]
    /\ UNCHANGED <<sessions, unlocked, achieved, logs, rowLock, processed,
                   last, events, rewardAdds>>
    /\ UNCHANGED <<calc, convs>>

\* the push follows the session insert and precedes the log update.
\* ConversationSession.objects.create(user=, session_id=, transcript=,
\* analysis_results=, experience_gained=, duration=): the model has no
\* session_id, transcript, analysis_results or experience_gained field, so
\* the constructor raises TypeError whenever session_id is given
ConvFinish(p, Layers) ==
    /\ pc[p] = "cv_finish"
    /\ IF loc[p].key = NoKey
       THEN \E delivered \in Layers :
            LET push == _send_xp_update_to_websocket(delivered)
                l == [loc[p] EXCEPT !.push = PushNote(push)]
            IN IF push.raised
               THEN /\ logs' = update_webhook_log(loc[p].log, "error")
                    /\ Reply(p, l, "500", "push_error")
               ELSE /\ logs' = update_webhook_log(loc[p].log, "success")
                    /\ Reply(p, l, "200", "success")
       ELSE /\ logs' = update_webhook_log(loc[p].log, "error")
            /\ Reply(p, loc[p], "500", "type_error")
    /\ UNCHANGED <<profile, sessions, unlocked, achieved, rowLock, processed,
                   events, rewardAdds>>
    /\ UNCHANGED <<calc, convs>>

\* ------------------------------------- live connection: analyze_speech
\* handle_speech_analysis up to the call of save_speech_session_atomic:
\* empty text, the consumer's processed_requests, the external analysis.
\* An analysis that lacks a score key (Analyses has FALSE) makes the save
\* raise KeyError.
WsReceive(p, Analyses) ==
    /\ Free(p) /\ events < MaxEvents
    /\ \E text \in WsTexts, timestamp \in WsStamps, gained \in WsXps,
          valid \in Analyses :
       LET request_id == _generate_request_id(text, timestamp)
           l == [NoLocals EXCEPT !.ep = "ws", !.key = request_id,
                    !.dup = (request_id \in SessionKeys),
                    !.xp = gained, !.valid = valid]
       IN IF text = ""
          THEN /\ Reply(p, [NoLocals EXCEPT !.ep = "ws"], "error",
                        "No text provided")
               /\ UNCHANGED processed
          ELSE IF request_id \in processed[p]
          THEN /\ Reply(p, [l EXCEPT !.xp = 0, !.valid = TRUE], "ignored",
                        "processed_requests")
               /\ UNCHANGED processed
          ELSE /\ processed' = [processed EXCEPT ![p] = @ \cup {request_id}]
               /\ loc' = [loc EXCEPT ![p] = l]
               /\ pc' = [pc EXCEPT ![p] = "ws_check"]
               /\ UNCHANGED last
    /\ events' = events + 1
    /\ UNCHANGED <<profile, sessions, unlocked, achieved, logs, rowLock,
                   rewardAdds>>
    /\ UNCHANGED <<calc, convs>>

\* save_speech_session_atomic: the duplicate lookup that opens the transaction
WsCheck(p) ==
    /\ pc[p] = "ws_check"
    /\ IF loc[p].key \in SessionKeys
       THEN Reply(p, [loc[p] EXCEPT !.xp = 0], "ignored", "existing_session")
       ELSE /\ pc' = [pc EXCEPT ![p] = "ws_lock"]
            /\ UNCHANGED <<loc, last>>
    /\ UNCHANGED <<profile, sessions, unlocked, achieved, logs, rowLock,
                   processed, events, rewardAdds>>
    /\ UNCHANGED <<calc, convs>>

\* UserProfile.objects.select_for_update().get(user=self.user)
WsLock(p) ==
    /\ pc[p] = "ws_lock"
    /\ rowLock = 0
    /\ rowLock' = p
    /\ loc' = [loc EXCEPT ![p].prof = profile, ![p].old_level = profile.level,
                          ![p].new_level = profile.level]
    /\ pc' = [pc EXCEPT ![p] = "ws_commit"]
    /\ UNCHANGED <<profile, sessions, unlocked, achieved, logs, processed,
                   last, events, rewardAdds>>
    /\ UNCHANGED <<calc, convs>>

\* SpeechSession.objects.create, the profile update and the commit; a
\* KeyError or IntegrityError rolls the transaction back and the method
\* returns None, which the handler takes for a duplicate
WsCommit(p) ==
    /\ pc[p] = "ws_commit"
    /\ rowLock = p
    /\ rowLock' = 0
    /\ IF loc[p].valid /\ SessionInsertOk(loc[p].key)
       THEN LET points == loc[p].prof.xp + loc[p].xp
                new_level == (points \div 100) + 1
            IN /\ sessions' = Append(sessions,
                                SpeechSessionRow(loc[p].key, loc[p].xp, 1, 5,
                                                 WsOverall))
               /\ profile' = [loc[p].prof EXCEPT !.xp = points,
                                                 !.level = new_level]
               /\ loc' = [loc EXCEPT ![p].prof = profile',
                                     ![p].new_level = new_level,
                                     ![p].wrote = TRUE]
               /\ pc' = [pc EXCEPT ![p] = "ws_respond"]
               /\ UNCHANGED last
       ELSE /\ Reply(p, [loc[p] EXCEPT !.xp = 0], "ignored",
                      IF loc[p].valid THEN "integrity_error" ELSE "key_error")
            /\ UNCHANGED <<profile, sessions>>
    /\ UNCHANGED <<unlocked, achieved, logs, processed, events, rewardAdds>>
    /\ UNCHANGED <<calc, convs>>

\* get_newly_unlocked_items after a level-up (no row is ever written) and
\* the analysis_complete message
WsRespond(p) ==
    /\ pc[p] = "ws_respond"
    /\ LET level_up == loc[p].new_level > loc[p].old_level
           grant == IF level_up
                    THEN get_newly_unlocked_items(unlocked, loc[p].new_level)
                    ELSE "none"
       IN Reply(p, [loc[p] EXCEPT !.grant = grant], "analysis_complete",
                "success")
    /\ UNCHANGED <<profile, sessions, unlocked, achieved, logs, rowLock,
                   processed, events, rewardAdds>>
    /\ UNCHANGED <<calc, convs>>

\* ----------------------------------------- REST speech-session create
\* perform_create: serializer.save(user=request.user) inserts the row; a
\* unique_together violation is an unhandled IntegrityError (HTTP 500)
RestCreate(p, Xps) ==
    /\ Free(p) /\ events < MaxEvents
    /\ \E key \in RestKeys \cup {NoKey}, gained \in Xps :
       LET l == [NoLocals EXCEPT !.ep = "rest", !.key = key,
                    !.dup = (key # NoKey /\ key \in SessionKeys)]
       IN IF SessionInsertOk(key)
          THEN /\ sessions' = Append(sessions,
                                SpeechSessionRow(key, gained, RestWords,
                                                 RestSeconds, RestOverall))
               /\ loc' = [loc EXCEPT ![p] = [l EXCEPT !.xp = gained,
                                                       !.wrote = TRUE]]
               /\ pc' = [pc EXCEPT ![p] = "r_read"]
               /\ UNCHANGED last
          ELSE /\ sessions' = sessions
               /\ Reply(p, l, "500", "session_integrity_error")
    /\ events' = events + 1
    /\ UNCHANGED <<profile, unlocked, achieved, logs, rowLock, processed,
                   rewardAdds>>
    /\ UNCHANGED <<calc, convs>>

RECURSIVE SumOverall(_)
SumOverall(rows) ==
    IF rows = <<>> THEN 0 ELSE Head(rows).overall + SumOverall(Tail(rows))

\* _update_user_progress: UserProfile.objects.get and the in-memory update;
\* improvement_score becomes Avg('overall_score') over the sessions of the
\* last 7 days (here: every session) unless that average is 0 or None
RestRead(p) ==
    /\ pc[p] = "r_read"
    /\ LET points == profile.xp + loc[p].xp
           level_up == points >= profile.level * 100
           level == IF level_up THEN profile.level + 1 ELSE profile.level
           total == SumOverall(sessions)
       IN /\ loc' = [loc EXCEPT ![p].old_level = profile.level,
                        ![p].new_level = level,
                        ![p].prof = [profile EXCEPT !.xp = points,
                                       !.level = level,
                                       !.time = profile.time + RestSeconds,
                                       !.improvement_score =
                                          IF sessions # <<>> /\ total # 0
                                          THEN [num |-> total,
                                                den |-> Len(sessions)]
                                          ELSE @]]
          /\ pc' = [pc EXCEPT ![p] = IF level_up THEN "r_unlock" ELSE "r_save"]
    /\ UNCHANGED <<profile, sessions, unlocked, achieved, logs, rowLock,
                   processed, last, events, rewardAdds>>
    /\ UNCHANGED <<calc, convs>>

\* _unlock_level_rewards(profile)
RestUnlock(p) ==
    /\ pc[p] = "r_unlock"
    /\ LET level == loc[p].prof.level IN
       unlocked' =
         IF level = 2
         THEN get_or_create_default(
                get_or_create_default(unlocked, "body_color", "black", level),
                "eye_color", "blue", level)
         ELSE IF level = 5
         THEN get_or_create_default(unlocked, "body_color", "spotted", level)
         ELSE IF level = 10
         THEN get_or_create_default(unlocked, "body_color", "blue", level)
         ELSE unlocked
    /\ pc' = [pc EXCEPT ![p] = "r_save"]
    /\ UNCHANGED <<profile, sessions, achieved, logs, rowLock, processed, loc,
                   last, events, rewardAdds>>
    /\ UNCHANGED <<calc, convs>>

\* profile.save() of _update_user_progress
RestSave(p) ==
    /\ pc[p] = "r_save"
    /\ rowLock = 0
    /\ profile' = loc[p].prof
    /\ pc' = [pc EXCEPT ![p] = "a_list"]
    /\ UNCHANGED <<sessions, unlocked, achieved, logs, rowLock, processed,
                   loc, last, events, rewardAdds>>
    /\ UNCHANGED <<calc, convs>>

\* _check_achievements: UserProfile.objects.get and the query for the
\* achievements the user has not earned
RestAchList(p) ==
    /\ pc[p] = "a_list"
    /\ LET earned == {achieved[i] : i \in DOMAIN achieved}
           available == SelectSeq([i \in DOMAIN Achievements |->
                                      Achievements[i].id],
                                  LAMBDA id : id \notin earned)
           l == [loc[p] EXCEPT !.prof = profile, !.todo = available]
       IN IF available = <<>>
          THEN Reply(p, l, "201", "success")
          ELSE /\ loc' = [loc EXCEPT ![p] = l]
               /\ pc' = [pc EXCEPT ![p] = "a_check"]
               /\ UNCHANGED last
    /\ UNCHANGED <<profile, sessions, unlocked, achieved, logs, rowLock,
                   processed, events, rewardAdds>>
    /\ UNCHANGED <<calc, convs>>

RECURSIVE SumWords(_)
SumWords(rows) ==
    IF rows = <<>> THEN 0 ELSE Head(rows).words + SumWords(Tail(rows))

\* _check_achievement_condition on the handler's profile object
_check_achievement_condition(a, prof) ==
    CASE a.type = "words_spoken" -> SumWords(sessions) >= a.target
      [] a.type = "level_milestone" -> prof.level >= a.target
      [] a.type = "speaking_time" -> prof.time >= a.target
      [] OTHER -> FALSE

\* one iteration of the loop up to UserAchievement.objects.create; the
\* unique_together violation is an unhandled IntegrityError (HTTP 500)
RestAchCheck(p) ==
    /\ pc[p] = "a_check"
    /\ LET a == AchievementOf(Head(loc[p].todo))
           rest == Tail(loc[p].todo)
       IN IF ~_check_achievement_condition(a, loc[p].prof)
          THEN /\ IF rest = <<>>
                  THEN Reply(p, loc[p], "201", "success")
                  ELSE /\ loc' = [loc EXCEPT ![p].todo = rest]
                       /\ UNCHANGED <<pc, last>>
               /\ UNCHANGED achieved
          ELSE IF AchievementInsertOk(a.id)
          THEN /\ achieved' = Append(achieved, a.id)
               /\ pc' = [pc EXCEPT ![p] = "a_save"]
               /\ UNCHANGED <<loc, last>>
          ELSE /\ Reply(p, loc[p], "500", "achievement_integrity_error")
               /\ UNCHANGED achieved
    /\ UNCHANGED <<profile, sessions, unlocked, logs, rowLock, processed,
                   events, rewardAdds>>
    /\ UNCHANGED <<calc, convs>>

\* the reward: experience_points += experience_reward, profile.save(), and
\* the customization reward's get_or_create
RestAchSave(p) ==
    /\ pc[p] = "a_save"
    /\ rowLock = 0
    /\ LET a == AchievementOf(Head(loc[p].todo))
           rest == Tail(loc[p].todo)
           prof == [loc[p].prof EXCEPT !.xp = @ + a.reward]
           l == [loc[p] EXCEPT !.prof = prof, !.todo = rest,
                               !.rewards = @ + a.reward]
       IN /\ profile' = prof
          /\ rewardAdds' = [rewardAdds EXCEPT ![a.id] = @ + 1]
          /\ unlocked' = IF a.custom = NoReward THEN unlocked
                         ELSE get_or_create_default(unlocked, a.custom.type,
                                                    a.custom.value, prof.level)
          /\ IF rest = <<>>
             THEN Reply(p, l, "201", "success")
             ELSE /\ loc' = [loc EXCEPT ![p] = l]
                  /\ pc' = [pc EXCEPT ![p] = "a_check"]
                  /\ UNCHANGED last
    /\ UNCHANGED <<sessions, achieved, logs, rowLock, processed, events>>
    /\ UNCHANGED <<calc, convs>>

\* ------------------------------------------- profile, onboarding, avatar
\* a validated field of the serializer: the value of the body, or the
\* instance's own value when the body leaves the field out
Updated(old, v) == IF v = "keep" THEN old ELSE v = "true"

\* UserProfileView.get_object: the profile row as the view loads it
ProfileRead(p) ==
    /\ Free(p) /\ events < MaxEvents
    /\ loc' = [loc EXCEPT ![p] = [NoLocals EXCEPT !.ep = "profile",
                                     !.uid = "u1", !.prof = profile]]
    /\ pc' = [pc EXCEPT ![p] = "pf_save"]
    /\ events' = events + 1
    /\ UNCHANGED <<profile, sessions, unlocked, achieved, logs, rowLock,
                   processed, last, rewardAdds, calc,
                   convs>>

\* UserProfileSerializer.update: level, experience_points,
\* total_speaking_time and improvement_score are read-only, the two flags
\* are not; save() writes every field of the loaded instance
ProfileSave(p, Bodies) ==
    /\ pc[p] = "pf_save"
    /\ rowLock = 0
    /\ \E body \in Bodies :
         LET prof == [loc[p].prof EXCEPT
                        !.has_completed_onboarding =
                            Updated(@, body.has_completed_onboarding),
                        !.has_active_avatar =
                            Updated(@, body.has_active_avatar)]
         IN /\ profile' = prof
            /\ Reply(p, [loc[p] EXCEPT !.prof = prof, !.wrote = TRUE],
                     "200", "success")
    /\ UNCHANGED <<sessions, unlocked, achieved, logs, rowLock, processed,
                   events, rewardAdds, calc,
                   convs>>

\* OnboardingProfileView.perform_update: the profile row as loaded by
\* get_or_create after the onboarding answers are saved
OnboardRead(p) ==
    /\ Free(p) /\ events < MaxEvents
    /\ events' = events + 1
    /\ IF profile.has_completed_onboarding
       THEN Reply(p, [NoLocals EXCEPT !.ep = "onboarding", !.uid = "u1",
                                      !.prof = profile], "200", "success")
       ELSE /\ loc' = [loc EXCEPT ![p] = [NoLocals EXCEPT
                          !.ep = "onboarding", !.uid = "u1", !.prof = profile]]
            /\ pc' = [pc EXCEPT ![p] = "ob_save"]
            /\ UNCHANGED last
    /\ UNCHANGED <<profile, sessions, unlocked, achieved, logs, rowLock,
                   processed, rewardAdds, calc,
                   convs>>

\* has_completed_onboarding = True; therapy_profile.save()
OnboardSave(p) ==
    /\ pc[p] = "ob_save"
    /\ rowLock = 0
    /\ LET prof == [loc[p].prof EXCEPT !.has_completed_onboarding = TRUE]
       IN /\ profile' = prof
          /\ Reply(p, [loc[p] EXCEPT !.prof = prof, !.wrote = TRUE],
                   "200", "success")
    /\ UNCHANGED <<sessions, unlocked, achieved, logs, rowLock, processed,
                   events, rewardAdds, calc,
                   convs>>

\* UserAvatarView.perform_update: the profile row as loaded by
\* get_or_create after the avatar is saved
AvatarRead(p) ==
    /\ Free(p) /\ events < MaxEvents
    /\ events' = events + 1
    /\ IF profile.has_active_avatar
       THEN Reply(p, [NoLocals EXCEPT !.ep = "avatar", !.uid = "u1",
                                      !.prof = profile], "200", "success")
       ELSE /\ loc' = [loc EXCEPT ![p] = [NoLocals EXCEPT
                          !.ep = "avatar", !.uid = "u1", !.prof = profile]]
            /\ pc' = [pc EXCEPT ![p] = "av_save"]
            /\ UNCHANGED last
    /\ UNCHANGED <<profile, sessions, unlocked, achieved, logs, rowLock,
                   processed, rewardAdds, calc,
                   convs>>

\* has_active_avatar = True; profile.save()
AvatarSave(p) ==
    /\ pc[p] = "av_save"
    /\ rowLock = 0
    /\ LET prof == [loc[p].prof EXCEPT !.has_active_avatar = TRUE]
       IN /\ profile' = prof
          /\ Reply(p, [loc[p] EXCEPT !.prof = prof, !.wrote = TRUE],
                   "200", "success")
    /\ UNCHANGED <<sessions, unlocked, achieved, logs, rowLock, processed,
                   events, rewardAdds, calc,
                   convs>>

\* ------------------------------------------- customization options
\* the choices of CharacterCustomization with the level each needs by
\* _get_level_requirement
option_catalog == {
    [type |-> "body_color", value |-> "brown", lvl |-> 1],
    [type |-> "body_color", value |-> "golden", lvl |-> 1],
    [type |-> "body_color", value |-> "black", lvl |-> 2],
    [type |-> "body_color", value |-> "white", lvl |-> 3],
    [type |-> "body_color", value |-> "spotted", lvl |-> 5],
    [type |-> "body_color", value |-> "blue", lvl |-> 10],
    [type |-> "body_color", value |-> "purple", lvl |-> 15],
    [type |-> "body_color", value |-> "rainbow", lvl |-> 20],
    [type |-> "eye_color", value |-> "brown", lvl |-> 1],
    [type |-> "eye_color", value |-> "blue", lvl |-> 2],
    [type |-> "eye_color", value |-> "green", lvl |-> 3],
    [type |-> "eye_color", value |-> "amber", lvl |-> 4],
    [type |-> "eye_color", value |-> "purple", lvl |-> 12],
    [type |-> "eye_color", value |-> "rainbow", lvl |-> 18],
    [type |-> "accessory", value |-> "none", lvl |-> 1],
    [type |-> "accessory", value |-> "hat", lvl |-> 4],
    [type |-> "accessory", value |-> "bow_tie", lvl |-> 6],
    [type |-> "accessory", value |-> "collar", lvl |-> 2],
    [type |-> "accessory", value |-> "glasses", lvl |-> 8],
    [type |-> "accessory", value |-> "cape", lvl |-> 12],
    [type |-> "accessory", value |-> "crown", lvl |-> 16],
    [type |-> "accessory", value |-> "wings", lvl |-> 20] }

\* an is_unlocked that looks at the rows only
is_unlocked_by_row(level_required, level, has_row) == has_row

\* is_unlocked of get_customization_options
is_unlocked(level_required, level, has_row) ==
    level_required <= level \/ has_row

\* get: get_object_or_404(UserProfile, user=user)
OptionsRead(p) ==
    /\ Free(p)
    /\ loc' = [loc EXCEPT ![p] = [NoLocals EXCEPT !.ep = "options",
                                                  !.prof = profile]]
    /\ pc' = [pc EXCEPT ![p] = "op_list"]
    /\ UNCHANGED <<profile, sessions, unlocked, achieved, logs, rowLock,
                   processed, last, events, rewardAdds, calc, convs>>

\* the UnlockedCustomization rows are read and every choice is listed; the
\* response is kept as the set of choices reported with is_unlocked true
OptionsList(p) ==
    /\ pc[p] = "op_list"
    /\ LET reported == {o \in option_catalog :
                          is_unlocked(o.lvl, loc[p].prof.level,
                                      \E r \in unlocked : SameOption(r, o))}
       IN Reply(p, [loc[p] EXCEPT !.options =
                       {[type |-> o.type, value |-> o.value] : o \in reported}],
                "200", "success")
    /\ UNCHANGED <<profile, sessions, unlocked, achieved, logs, rowLock,
                   processed, events, rewardAdds, calc, convs>>

\* ------------------------------------------- conversation sessions
\* ConversationSessionCreateView.post: get_or_create on the conversation id
\* (repeating it changes no row, so it is not counted as an event)
ConversationCreate(p, Ids) ==
    /\ Free(p)
    /\ \E cid \in Ids :
        /\ convs' = IF convs[cid].created THEN convs
                    ELSE [convs EXCEPT ![cid] = NewConversation]
        /\ Reply(p, [NoLocals EXCEPT !.ep = "talk", !.key = cid,
                        !.dup = convs[cid].created,
                        !.wrote = ~convs[cid].created],
                 "200", IF convs[cid].created THEN "existing" ELSE "created")
    /\ UNCHANGED <<profile, sessions, unlocked, achieved, logs, rowLock,
                   processed, events, rewardAdds, calc>>

\* experience_earned = int((15 + min(duration_seconds // 60 * 2, 30)) *
\* engagement_multiplier), the multipliers 1.0, 1.2, 1.5 in tenths
feedback_experience(data) ==
    LET duration_bonus == Min((data.duration_seconds \div 60) * 2, 30)
        engagement_multiplier ==
            CASE data.engagement_level = "low" -> 10
              [] data.engagement_level = "medium" -> 12
              [] OTHER -> 15
    IN TruncDiv((15 + duration_bonus) * engagement_multiplier, 10)

\* _calculate_session_rating in tenths, clamped to 1.0 .. 5.0
_calculate_session_rating(data) ==
    LET engagement_bonus ==
            CASE data.engagement_level = "low" -> -5
              [] data.engagement_level = "medium" -> 0
              [] OTHER -> 8
        duration_bonus == Min(data.duration_seconds \div 60, 10)
        rating == 30 + engagement_bonus + duration_bonus
                     + 2 * data.improvements
    IN Min(IF rating < 10 THEN 10 ELSE rating, 50)

\* the while loop of ConversationFeedbackView._update_user_progress
RECURSIVE feedback_level(_, _)
feedback_level(level, xp) ==
    IF xp >= level * 100 THEN feedback_level(level + 1, xp) ELSE level

\* level_rewards of ConversationFeedbackView._unlock_level_rewards
level_rewards == <<
    [type |-> "body_color", value |-> "black", lvl |-> 2],
    [type |-> "eye_color", value |-> "blue", lvl |-> 2],
    [type |-> "eye_color", value |-> "green", lvl |-> 3],
    [type |-> "accessory", value |-> "collar", lvl |-> 3],
    [type |-> "accessory", value |-> "hat", lvl |-> 4],
    [type |-> "body_color", value |-> "spotted", lvl |-> 5],
    [type |-> "accessory", value |-> "bow_tie", lvl |-> 6],
    [type |-> "accessory", value |-> "glasses", lvl |-> 8],
    [type |-> "body_color", value |-> "blue", lvl |-> 10],
    [type |-> "eye_color", value |-> "purple", lvl |-> 12],
    [type |-> "accessory", value |-> "cape", lvl |-> 12],
    [type |-> "body_color", value |-> "purple", lvl |-> 15],
    [type |-> "accessory", value |-> "crown", lvl |-> 16],
    [type |-> "eye_color", value |-> "rainbow", lvl |-> 18],
    [type |-> "body_color", value |-> "rainbow", lvl |-> 20],
    [type |-> "accessory", value |-> "wings", lvl |-> 20] >>

\* the loop over level_rewards[profile.level]
RECURSIVE RewardLoop(_, _, _)
RewardLoop(rows, i, level) ==
    IF i > Len(level_rewards) THEN rows
    ELSE LET e == level_rewards[i] IN
         RewardLoop(IF e.lvl = level
                    THEN get_or_create_default(rows, e.type, e.value, level)
                    ELSE rows,
                    i + 1, level)

\* session_rating summed over the user's conversation sessions of the last
\* 7 days (here: every session), and their number
RatingSum == LET RECURSIVE Sum(_)
                 Sum(S) == IF S = {} THEN 0
                           ELSE LET c == CHOOSE c \in S : TRUE
                                IN convs[c].session_rating + Sum(S \ {c})
             IN Sum({c \in ConversationIds : convs[c].created})

RatingCount == Cardinality({c \in ConversationIds : convs[c].created})

\* ConversationFeedbackView.post up to session.save(): the body is valid,
\* the session is looked up (404 when the user has none with this id), the
\* feedback, experience_earned and session_rating are set on the object
FeedbackReceive(p, Ids, Inputs) ==
    /\ Free(p) /\ events < MaxEvents
    /\ \E cid \in Ids, data \in Inputs :
       LET l == [NoLocals EXCEPT !.ep = "feedback", !.key = cid,
                    !.dup = convs[cid].session_rating > 0,
                    !.xp = feedback_experience(data),
                    !.secs = data.duration_seconds,
                    !.rating = _calculate_session_rating(data)]
       IN IF ~convs[cid].created
          THEN Reply(p, [NoLocals EXCEPT !.ep = "feedback", !.key = cid],
                     "404", "Conversation session not found")
          ELSE /\ loc' = [loc EXCEPT ![p] = l]
               /\ pc' = [pc EXCEPT ![p] = "fb_score"]
               /\ UNCHANGED last
    /\ events' = events + 1
    /\ UNCHANGED <<profile, sessions, unlocked, achieved, logs, rowLock,
                   processed, rewardAdds, calc, convs>>

\* session.save()
FeedbackScore(p) ==
    /\ pc[p] = "fb_score"
    /\ convs' = [convs EXCEPT ![loc[p].key] =
                   [created |-> TRUE, duration |-> loc[p].secs,
                    experience_earned |-> loc[p].xp,
                    session_rating |-> loc[p].rating]]
    /\ loc' = [loc EXCEPT ![p].wrote = TRUE]
    /\ pc' = [pc EXCEPT ![p] = "fb_read"]
    /\ UNCHANGED <<profile, sessions, unlocked, achieved, logs, rowLock,
                   processed, last, events, rewardAdds, calc>>

\* _update_user_progress up to profile.save(): the profile is read, XP and
\* duration are added, improvement_score becomes (avg_rating - 1) * 25
\* unless the average is 0, the level rises while XP >= level * 100
FeedbackRead(p) ==
    /\ pc[p] = "fb_read"
    /\ LET points == profile.xp + loc[p].xp
           level == feedback_level(profile.level, points)
       IN loc' = [loc EXCEPT ![p].old_level = profile.level,
                    ![p].new_level = level,
                    ![p].prof = [profile EXCEPT !.xp = points,
                                   !.level = level,
                                   !.time = profile.time + loc[p].secs,
                                   !.improvement_score =
                                      IF RatingSum # 0
                                      THEN [num |-> (RatingSum
                                                      - 10 * RatingCount) * 25,
                                            den |-> 10 * RatingCount]
                                      ELSE @]]
    /\ pc' = [pc EXCEPT ![p] = "fb_save"]
    /\ UNCHANGED <<profile, sessions, unlocked, achieved, logs, rowLock,
                   processed, last, events, rewardAdds, calc, convs>>

\* profile.save(), and the response when the level did not rise
FeedbackSave(p) ==
    /\ pc[p] = "fb_save"
    /\ rowLock = 0
    /\ profile' = loc[p].prof
    /\ IF loc[p].new_level > loc[p].old_level
       THEN /\ pc' = [pc EXCEPT ![p] = "fb_unlock"]
            /\ UNCHANGED <<loc, last>>
       ELSE Reply(p, loc[p], "200", "success")
    /\ UNCHANGED <<sessions, unlocked, achieved, logs, rowLock, processed,
                   events, rewardAdds, calc, convs>>

\* _unlock_level_rewards(profile) after a level-up, and the response
FeedbackUnlock(p) ==
    /\ pc[p] = "fb_unlock"
    /\ unlocked' = RewardLoop(unlocked, 1, loc[p].new_level)
    /\ Reply(p, loc[p], "200", "success")
    /\ UNCHANGED <<profile, sessions, achieved, logs, rowLock, processed,
                   events, rewardAdds, calc, convs>>

\* ------------------------------------- handlers run one after the other
\* the profile and the unlocked rows after k analyze_speech messages of
\* 15 XP each on a new user
SeqStart(k) ==
    [profile |-> [NewProfile EXCEPT !.xp = 15 * k,
                                    !.level = ((15 * k) \div 100) + 1],
     unlocked |-> {}]

\* save_speech_session_atomic alone on the state st (get_newly_unlocked_items
\* writes no row)
ApplyWs(st, gained) ==
    LET points == st.profile.xp + gained
    IN [st EXCEPT !.profile = [st.profile EXCEPT !.xp = points,
                                  !.level = (points \div 100) + 1]]

\* elevenlabs_award_xp_webhook alone on the state st
ApplyAward(st, difficulty, score) ==
    LET points == st.profile.xp + award_total_xp(difficulty, score)
        old_level == st.profile.level
        new_level == _calculate_level_from_xp(points)
        level_up == new_level > old_level
        res == IF level_up
               THEN _unlock_customizations_for_level(st.unlocked, new_level)
               ELSE [rows |-> st.unlocked, ok |-> TRUE]
    IN [profile |-> IF res.ok
                    THEN [st.profile EXCEPT !.xp = points,
                             !.level = IF level_up THEN new_level
                                       ELSE old_level]
                    ELSE st.profile,
        unlocked |-> res.rows]

ApplyEvent(st, e) ==
    IF e.kind = "ws" THEN ApplyWs(st, e.xp)
    ELSE ApplyAward(st, e.difficulty, e.score)

\* ------------------------------------------------------- specifications
Next ==
    \E p \in Procs :
        \/ AwardReceive(p, {"u1"}, AwardKeys \cup {NoKey}, {"saved"})
        \/ AwardLoad(p, AwardInputs)
        \/ AwardUnlock(p)
        \/ AwardSave(p)
        \/ AwardFinish(p, {TRUE})
        \/ ConvReceive(p, {"u1"}, ConvKeys \cup {NoKey}, {"saved"})
        \/ ConvLoad(p, ConvInputs)
        \/ ConvUnlock(p)
        \/ ConvSave(p)
        \/ ConvFinish(p, {TRUE})
        \/ WsReceive(p, BOOLEAN)
        \/ WsCheck(p)
        \/ WsLock(p)
        \/ WsCommit(p)
        \/ WsRespond(p)
        \/ RestCreate(p, RestXps)
        \/ RestRead(p)
        \/ RestUnlock(p)
        \/ RestSave(p)
        \/ RestAchList(p)
        \/ RestAchCheck(p)
        \/ RestAchSave(p)

Spec == Init /\ [][Next]_vars

\* the two webhooks alone, called by anyone (missing user_id, unknown user,
\* the user) with one payload each and a WebhookLog insert that may raise
NextHooks ==
    \E p \in Procs :
        \/ AwardReceive(p, UserIds, ConvKeys \cup {NoKey}, {"saved", "failed"})
        \/ AwardLoad(p, {HardWord})
        \/ AwardUnlock(p)
        \/ AwardSave(p)
        \/ AwardFinish(p, {TRUE})
        \/ ConvReceive(p, UserIds, ConvKeys \cup {NoKey}, {"saved", "failed"})
        \/ ConvLoad(p, {ShortTalk})
        \/ ConvUnlock(p)
        \/ ConvSave(p)
        \/ ConvFinish(p, {TRUE})

SpecHooks == Init /\ [][NextHooks]_vars

\* the two webhooks called by the user, with a channel layer that may fail
NextPush ==
    \E p \in Procs :
        \/ AwardReceive(p, {"u1"}, ConvKeys \cup {NoKey}, {"saved"})
        \/ AwardLoad(p, {HardWord})
        \/ AwardUnlock(p)
        \/ AwardSave(p)
        \/ AwardFinish(p, BOOLEAN)
        \/ ConvReceive(p, {"u1"}, ConvKeys \cup {NoKey}, {"saved"})
        \/ ConvLoad(p, {ShortTalk})
        \/ ConvUnlock(p)
        \/ ConvSave(p)
        \/ ConvFinish(p, BOOLEAN)

SpecPush == Init /\ [][NextPush]_vars

\* the XP computation of the award_xp webhook on every payload, and the
\* xp_earned of the response built from it
InitAwardXp ==
    /\ Registered
    /\ calc \in {[fn |-> "award_xp", done |-> FALSE, difficulty |-> d,
                  score |-> sc, out |-> 0] : d \in Difficulties, sc \in Scores}

CalcAwardXp ==
    /\ calc.fn = "award_xp" /\ ~calc.done
    /\ LET total_xp == award_total_xp(calc.difficulty, calc.score)
           l == [NoLocals EXCEPT !.ep = "award", !.xp = total_xp]
       IN calc' = [calc EXCEPT !.done = TRUE,
                      !.out = Response(l, "200", "success").xp_earned]
    /\ UNCHANGED <<profile, sessions, unlocked, achieved, logs, rowLock,
                   processed, pc, loc, last, events, rewardAdds, convs>>

SpecAwardXp == InitAwardXp /\ [][CalcAwardXp]_vars

\* the XP computation of the conversation_end webhook on every payload, and
\* the xp_earned of the response built from it
InitConvXp ==
    /\ Registered
    /\ calc \in {[fn |-> "conversation_xp", done |-> FALSE,
                  analysis |-> [present |-> TRUE, accuracy |-> a,
                                words |-> w, minutes |-> m],
                  out |-> 0] : a \in Accuracies, w \in WordCounts,
                               m \in Durations}

CalcConvXp ==
    /\ calc.fn = "conversation_xp" /\ ~calc.done
    /\ LET total_xp == _calculate_conversation_xp(calc.analysis)
           l == [NoLocals EXCEPT !.ep = "conv", !.xp = total_xp]
       IN calc' = [calc EXCEPT !.done = TRUE,
                      !.out = Response(l, "200", "success").xp_earned]
    /\ UNCHANGED <<profile, sessions, unlocked, achieved, logs, rowLock,
                   processed, pc, loc, last, events, rewardAdds, convs>>

SpecConvXp == InitConvXp /\ [][CalcConvXp]_vars

\* the user's profile, onboarding and avatar updates next to the
\* conversation_end webhook as the event application
NextFlags ==
    \E p \in Procs :
        \/ ProfileRead(p)
        \/ ProfileSave(p, ProfileBodies)
        \/ OnboardRead(p)
        \/ OnboardSave(p)
        \/ AvatarRead(p)
        \/ AvatarSave(p)
        \/ ConvReceive(p, {"u1"}, {NoKey}, {"saved"})
        \/ ConvLoad(p, {LongTalk})
        \/ ConvUnlock(p)
        \/ ConvSave(p)
        \/ ConvFinish(p, {TRUE})

SpecFlags == Init /\ [][NextFlags]_vars

\* the webhook helper _calculate_level_from_xp on every XP total
InitLevel ==
    /\ Registered
    /\ calc \in {[fn |-> "level_from_xp", done |-> FALSE, xp |-> x,
                  out |-> 0] : x \in XpTotals}

CalcLevel ==
    /\ calc.fn = "level_from_xp" /\ ~calc.done
    /\ calc' = [calc EXCEPT !.done = TRUE,
                            !.out = _calculate_level_from_xp(calc.xp)]
    /\ UNCHANGED <<profile, sessions, unlocked, achieved, logs, rowLock,
                   processed, pc, loc, last, events, rewardAdds, convs>>

SpecLevel == InitLevel /\ [][CalcLevel]_vars

\* two events applied to one starting state in both orders
InitOrder ==
    /\ Registered
    /\ calc \in {[fn |-> "order", done |-> FALSE, start |-> SeqStart(k),
                  a |-> a, b |-> b,
                  out |-> [ab |-> SeqStart(k), ba |-> SeqStart(k)]] :
                    k \in 0..MaxWarmUp, a \in SeqEvents,
                    b \in SeqEvents}

CalcOrder ==
    /\ calc.fn = "order" /\ ~calc.done
    /\ calc' = [calc EXCEPT !.done = TRUE,
                  !.out = [ab |-> ApplyEvent(ApplyEvent(calc.start, calc.a),
                                             calc.b),
                           ba |-> ApplyEvent(ApplyEvent(calc.start, calc.b),
                                             calc.a)]]
    /\ UNCHANGED <<profile, sessions, unlocked, achieved, logs, rowLock,
                   processed, pc, loc, last, events, rewardAdds, convs>>

SpecOrder == InitOrder /\ [][CalcOrder]_vars

\* the live connections of the user, with the conversation_end webhook as a
\* concurrent writer of the profile
NextLive ==
    \E p \in Procs :
        \/ WsReceive(p, BOOLEAN)
        \/ WsCheck(p)
        \/ WsLock(p)
        \/ WsCommit(p)
        \/ WsRespond(p)
        \/ ConvReceive(p, {"u1"}, ConvKeys \cup {NoKey}, {"saved"})
        \/ ConvLoad(p, {LongTalk})
        \/ ConvUnlock(p)
        \/ ConvSave(p)
        \/ ConvFinish(p, {TRUE})

SpecLive == Init /\ [][NextLive]_vars

\* concurrent REST session submissions
NextRest ==
    \E p \in Procs :
        \/ RestCreate(p, RestXps)
        \/ RestRead(p)
        \/ RestUnlock(p)
        \/ RestSave(p)
        \/ RestAchList(p)
        \/ RestAchCheck(p)
        \/ RestAchSave(p)

SpecRest == Init /\ [][NextRest]_vars

\* REST session submissions whose XP stays below a level's worth
NextAch ==
    \E p \in Procs :
        \/ RestCreate(p, SmallXps)
        \/ RestRead(p)
        \/ RestUnlock(p)
        \/ RestSave(p)
        \/ RestAchList(p)
        \/ RestAchCheck(p)
        \/ RestAchSave(p)

SpecAch == Init /\ [][NextAch]_vars

\* the two webhooks called one request at a time by anyone, with a
\* WebhookLog row whose insert may raise and whose later saves may raise
NextAudit ==
    \E p \in Procs :
        \/ ((\A q \in Procs : Free(q))
              /\ AwardReceive(p, UserIds, {NoKey}, {"saved", "failed", "stuck"}))
        \/ AwardLoad(p, {HardWord})
        \/ AwardUnlock(p)
        \/ AwardSave(p)
        \/ AwardFinish(p, {TRUE})
        \/ ((\A q \in Procs : Free(q))
              /\ ConvReceive(p, UserIds, {NoKey}, {"saved", "failed", "stuck"}))
        \/ ConvLoad(p, {ShortTalk})
        \/ ConvUnlock(p)
        \/ ConvSave(p)
        \/ ConvFinish(p, {TRUE})

SpecAudit == Init /\ [][NextAudit]_vars

\* the options listing on every profile level with the rows the entry
\* points leave behind: none (the live connection raises the level without
\* writing rows), the rows of the webhooks for a level reached, the rows of
\* the REST and feedback paths for level 2; a save() of a profile read
\* earlier can put any lower level next to them
MaxListLevel == 20
ListedRows ==
    {{}} \cup {_unlock_customizations_for_level({}, k).rows :
                 k \in 1..MaxListLevel}
         \cup {RewardLoop({}, 1, 2)}

InitOptions ==
    /\ profile \in {[NewProfile EXCEPT !.level = k] : k \in 1..MaxListLevel}
    /\ unlocked \in ListedRows
    /\ sessions = <<>>
    /\ achieved = <<>>
    /\ logs = <<>>
    /\ rowLock = 0
    /\ processed = [p \in Procs |-> {}]
    /\ pc = [p \in Procs |-> "idle"]
    /\ loc = [p \in Procs |-> NoLocals]
    /\ last = NoResponse
    /\ events = 0
    /\ rewardAdds = [a \in AchievementIds |-> 0]
    /\ convs = [c \in ConversationIds |-> NoConversation]
    /\ calc = NoCalc

NextOptions ==
    \E p \in Procs :
        \/ OptionsRead(p)
        \/ OptionsList(p)

SpecOptions == InitOptions /\ [][NextOptions]_vars

\* the award_xp webhook called for a user who so far used the live
\* connection only: up to MaxLiveWarmUp messages of 15 XP each
MaxLiveWarmUp == 20

InitAfterLive ==
    /\ profile \in {SeqStart(k).profile : k \in 0..MaxLiveWarmUp}
    /\ sessions = <<>>
    /\ unlocked = {}
    /\ achieved = <<>>
    /\ logs = <<>>
    /\ rowLock = 0
    /\ processed = [p \in Procs |-> {}]
    /\ pc = [p \in Procs |-> "idle"]
    /\ loc = [p \in Procs |-> NoLocals]
    /\ last = NoResponse
    /\ events = 0
    /\ rewardAdds = [a \in AchievementIds |-> 0]
    /\ convs = [c \in ConversationIds |-> NoConversation]
    /\ calc = NoCalc

NextAfterLive ==
    \E p \in Procs :
        \/ ((\A q \in Procs : Free(q))
              /\ AwardReceive(p, {"u1"}, {NoKey}, {"saved"}))
        \/ AwardLoad(p, {HardWord})
        \/ AwardUnlock(p)
        \/ AwardSave(p)
        \/ AwardFinish(p, {TRUE})

SpecAfterLive == InitAfterLive /\ [][NextAfterLive]_vars

\* conversation sessions, their feedback and REST speech sessions
NextTalk ==
    \E p \in Procs :
        \/ ConversationCreate(p, ConversationIds)
        \/ FeedbackReceive(p, ConversationIds, FeedbackInputs)
        \/ FeedbackScore(p)
        \/ FeedbackRead(p)
        \/ FeedbackSave(p)
        \/ FeedbackUnlock(p)
        \/ RestCreate(p, SmallXps)
        \/ RestRead(p)
        \/ RestUnlock(p)
        \/ RestSave(p)
        \/ RestAchList(p)
        \/ RestAchCheck(p)
        \/ RestAchSave(p)

SpecTalk == Init /\ [][NextTalk]_vars

\* ------------------------------------------------------------ properties
Quiescent == \A p \in Procs : Free(p)

\* handler p takes the step
Steps(p) == <<pc[p], loc[p]>>' # <<pc[p], loc[p]>>

RECURSIVE SumXp(_)
SumXp(rows) == IF rows = <<>> THEN 0 ELSE Head(rows).xp + SumXp(Tail(rows))

RECURSIVE SumRewards(_)
SumRewards(ids) ==
    IF ids = <<>> THEN 0
    ELSE AchievementOf(Head(ids)).reward + SumRewards(Tail(ids))

\* C1: idempotence.  A delivery whose idempotency key is already recorded
\* for the user (request_id on the live connection, session_id on the
\* webhooks) changes neither experience_points, level, the unlocked rows
\* nor the session records: no step of a handler serving such a delivery
\* touches them.
C1_DuplicateChangesNothing ==
    [][\A p \in Procs :
          (loc[p].dup /\ loc[p].ep \in {"ws", "award", "conv"} /\ Steps(p))
              => UNCHANGED <<profile, unlocked, sessions>>]_vars

\* C2: concurrency safety.  Once all handlers are done and every event has
\* been applied and recorded as its own session (distinct deliveries, none
\* failed), experience_points is the sum of the events' XP deltas plus the
\* rewards of the achievements earned: no update is lost.
C2_NoLostUpdate ==
    (Quiescent /\ events > 0 /\ Len(sessions) = events)
        => profile.xp = SumXp(sessions) + SumRewards(achieved)

\* the request ids of the live connection's messages
WsKeys == {_generate_request_id(text, timestamp) :
              text \in WsTexts \ {""}, timestamp \in WsStamps}

\* C3: on the live connection the duplicate check and the session append
\* act as one atomic unit.  No request_id ever has two session records, and
\* the step that ends the transaction either finds the key committed by a
\* concurrent delivery, changes nothing and reports the duplicate, or
\* appends the one record and adds exactly its XP to the stored profile.
C3_CheckAppendAtomic ==
    /\ [](\A i, j \in DOMAIN sessions :
             (sessions[i].key = sessions[j].key /\ sessions[i].key \in WsKeys)
                 => i = j)
    /\ [][\A p \in Procs :
             (pc[p] = "ws_commit" /\ pc'[p] # "ws_commit") =>
                 IF loc[p].key \in SessionKeys
                 THEN /\ UNCHANGED <<profile, sessions, unlocked>>
                      /\ last'.resp = "ignored"
                      /\ ~last'.wrote
                 ELSE loc[p].valid =>
                      /\ sessions' = Append(sessions,
                            SpeechSessionRow(loc[p].key, loc[p].xp, 1, 5,
                                                 WsOverall))
                      /\ profile'.xp = profile.xp + loc[p].xp]_vars

\* two deliveries of one message passed the duplicate lookup together; one
\* committed the record, the other was stopped at its insert
C3_RaceResolved ==
    /\ last.ep = "ws" /\ last.note = "integrity_error"
    /\ ~last.wrote /\ ~last.dup
    /\ Cardinality({i \in DOMAIN sessions : sessions[i].key = last.key}) = 1

\* C4: level consistency.  Whenever no event is in progress, the stored
\* level is level_for_xp(experience_points) of the staged threshold formula.
C4_LevelMatchesStagedFormula ==
    Quiescent => profile.level = level_for_xp(profile.xp)

\* C5: monotonicity.  experience_points, total_speaking_time and level never
\* decrease from one committed state to the next.
C5_Monotone ==
    [][/\ profile'.xp >= profile.xp
       /\ profile'.time >= profile.time
       /\ profile'.level >= profile.level]_vars

\* C6: unlock completeness.  When no event is in progress and the user has
\* levelled up to L, every catalog entry with threshold <= L has an
\* UnlockedCustomization row.
C6_UnlocksComplete ==
    (Quiescent /\ profile.level > 1) =>
        \A i \in DOMAIN level_requirements :
            level_requirements[i].lvl <= profile.level
                => \E r \in unlocked : SameOption(r, level_requirements[i])

\* C7: achievement single-grant.  Under every interleaving of session
\* submissions no achievement has two UserAchievement rows, and the reward
\* of no achievement is added to the profile more than once.
C7_SingleGrant ==
    /\ \A i, j \in DOMAIN achieved : achieved[i] = achieved[j] => i = j
    /\ \A a \in AchievementIds : rewardAdds[a] <= 1

\* two submissions both found the achievement unearned; one recorded it and
\* added the reward, the other was stopped at its insert
C7_RaceResolved ==
    /\ last.ep = "rest" /\ last.note = "achievement_integrity_error"
    /\ \E a \in AchievementIds : rewardAdds[a] = 1

\* C8: failure atomicity.  An event application that fails (HTTP 500 of a
\* webhook, a save that raised on the live connection) has changed neither
\* the profile, the unlocked rows nor the session records.
C8_FailureLeavesNoTrace ==
    (\/ last.ep \in {"award", "conv"} /\ last.resp = "500"
     \/ last.ep = "ws" /\ last.note \in {"key_error", "integrity_error"})
        => ~last.wrote

\* C9: a duplicate is a no-op success.  A delivery whose idempotency key is
\* already recorded is never answered with an error (no HTTP 5xx from the
\* webhooks, no error message on the live connection).
C9_DuplicateIsNotAnError ==
    (last.dup /\ last.ep \in {"ws", "award", "conv"})
        => last.resp \notin {"500", "error"}

\* positions of a webhook handler between its log_webhook_call and its
\* response
HookPcs == {"aw_load", "aw_unlock", "aw_save", "aw_finish",
            "cv_load", "cv_unlock", "cv_save", "cv_finish"}

\* a WebhookLog row is pending exactly while its handler is running, and a
\* handler that is past log_webhook_call has neither read nor written the
\* profile before its first load step
C10_PendingWhileRunning ==
    /\ \A h \in DOMAIN logs :
          logs[h].status = "pending" <=> \E p \in Procs : loc[p].log = h
    /\ \A p \in Procs :
          /\ loc[p].log # 0 => (pc[p] \in HookPcs /\ loc[p].log \in DOMAIN logs)
          /\ pc[p] \in {"aw_load", "cv_load"}
                => (~loc[p].wrote /\ loc[p].prof = NewProfile)
    /\ \A p, q \in Procs : (loc[p].log # 0 /\ loc[p].log = loc[q].log) => p = q

\* rows are never deleted, and a row changes only from pending to success
\* or error
C10_CompletedOnce ==
    [][/\ Len(logs') >= Len(logs)
       /\ \A h \in DOMAIN logs :
             logs'[h] # logs[h] =>
                 /\ logs[h].status = "pending"
                 /\ logs'[h].status \in {"success", "error"}
                 /\ logs'[h].type = logs[h].type]_vars

C11_UnknownUserIsClientError ==
    [][\A p \in Procs :
          (loc[p].ep \in {"award", "conv"} /\ loc[p].uid # "u1" /\ Steps(p))
              => /\ UNCHANGED <<profile, sessions, unlocked>>
                 /\ pc'[p] = "idle" => last'.resp \in {"400", "404"}]_vars

\* C12: the push to the user's group is attempted only by a webhook handler
\* that has already saved the profile, and the step that attempts it leaves
\* the saved XP and level as they are; when the push fails the handler still
\* answers 200 and sets its audit log row to 'success'.
C12_PushIsBestEffort ==
    [][\A p \in Procs :
          (Steps(p) /\ pc'[p] = "idle" /\ last'.push # "none")
              => /\ pc[p] \in {"aw_finish", "cv_finish"}
                 /\ loc[p].wrote
                 /\ profile' = profile
                 /\ last'.push = "failed"
                      => /\ last'.resp = "200"
                         /\ loc[p].log # 0
                              => logs'[loc[p].log].status = "success"]_vars

C12_PushFailedAfterSave ==
    /\ last.ep \in {"award", "conv"}
    /\ last.push = "failed"
    /\ last.resp = "200"
    /\ profile.xp > 0

\* C13: for every difficulty in {easy, medium, hard} and every score in
\* 0..100 the award_xp webhook grants the integer part of
\* difficulty_base * score / 100 (difficulty_base 5, 10, 15) plus a bonus of
\* 10 from score 80, 5 from score 60 and 0 below, and answers with that value
\* as xp_earned.
C13_AwardXpFormula ==
    (calc.fn = "award_xp" /\ calc.done)
        => LET difficulty_base == CASE calc.difficulty = "easy" -> 5
                                    [] calc.difficulty = "medium" -> 10
                                    [] calc.difficulty = "hard" -> 15
               bonus == CASE calc.score >= 80 -> 10
                          [] calc.score >= 60 /\ calc.score < 80 -> 5
                          [] OTHER -> 0
           IN calc.out = (difficulty_base * calc.score) \div 100 + bonus

C13_HardNinetyGrants23 ==
    /\ calc.fn = "award_xp" /\ calc.done
    /\ calc.difficulty = "hard" /\ calc.score = 90
    /\ calc.out = 23

\* round(n / 2) to the nearest integer, a half going to the even neighbour
RoundHalf(n) ==
    IF n % 2 = 0 THEN n \div 2
    ELSE IF ((n - 1) \div 2) % 2 = 0 THEN (n - 1) \div 2 ELSE (n + 1) \div 2

\* C14: for every analysis payload with overall_accuracy in 0..100,
\* words_spoken >= 0 and duration_minutes >= 0 the conversation_end webhook
\* grants 20 + round(accuracy * 0.5) + min(words_spoken * 2, 50)
\* + min(duration_minutes * 5, 30).
C14_ConversationXpFormula ==
    (calc.fn = "conversation_xp" /\ calc.done)
        => calc.out = 20 + RoundHalf(calc.analysis.accuracy)
                         + Min(calc.analysis.words * 2, 50)
                         + Min(calc.analysis.minutes * 5, 30)

\* C15: every analyze_speech message with non-empty text that is not a
\* duplicate ends with one terminal message to the client, analysis_complete
\* or a structured error; a failure while saving the session is reported as
\* an error and not dropped.
C15_TerminalMessage ==
    [][\A p \in Procs :
          (loc[p].ep = "ws" /\ Steps(p) /\ pc'[p] = "idle"
             /\ loc[p].key \notin SessionKeys)
              => last'.resp \in {"analysis_complete", "error"}]_vars

\* C16: once has_completed_onboarding or has_active_avatar of the profile is
\* true it stays true through every later operation on the profile.
C16_FlagsStayTrue ==
    [][/\ profile.has_completed_onboarding
           => profile'.has_completed_onboarding
       /\ profile.has_active_avatar => profile'.has_active_avatar]_vars

\* C17: an event whose application failed without committing a session
\* record or XP is applied normally when it is resubmitted with the same
\* idempotency key; a message is turned away as a duplicate only when a
\* session with its key was recorded, never because of what a failed attempt
\* left behind.
C17_RetryAfterFailure ==
    [][(last' # last /\ last'.ep = "ws" /\ last'.resp = "ignored"
          /\ last'.note = "processed_requests")
        => last'.key \in SessionKeys]_vars

\* C18: _calculate_level_from_xp returns, for every xp >= 0, a level >= 1
\* that does not decrease as xp grows and that is the largest level whose
\* staged threshold (UserProfile._calculate_xp_for_level) is <= xp.
C18_HelperIsLevelForXp ==
    (calc.fn = "level_from_xp" /\ calc.done)
        => /\ calc.out >= 1
           /\ calc.xp > 0 => _calculate_level_from_xp(calc.xp - 1) <= calc.out
           /\ _calculate_xp_for_level(calc.out) <= calc.xp
           /\ _calculate_xp_for_level(calc.out + 1) > calc.xp

\* C19: when one event's XP carries the total across several level
\* thresholds, the commit of that event sets the level implied by the new
\* total, not old_level + 1, and the rewards of every level in
\* (old_level, new_level] are granted by then.
C19_MultiLevelJump ==
    [][(profile' # profile /\ level_for_xp(profile'.xp) > profile.level + 1)
        => /\ profile'.level = level_for_xp(profile'.xp)
           /\ \A i \in DOMAIN level_requirements :
                 (/\ level_requirements[i].lvl > profile.level
                  /\ level_requirements[i].lvl <= profile'.level)
                     => \E r \in unlocked' :
                            SameOption(r, level_requirements[i])]_vars

\* C20: granting a customization never fails: whichever entry point created
\* the row of a (type, value) pair and whatever level_required it holds, a
\* later grant of the pair confirms the row, raises nothing and adds no
\* second row.
C20_GrantNeverFails ==
    /\ last.grant # "raised"
    /\ last.note # "unlock_integrity_error"
    /\ \A r1, r2 \in unlocked : SameOption(r1, r2) => r1 = r2

\* C21: when a session submission ends with achievements newly earned, the
\* stored level is the level of the final experience_points, the
\* achievements' experience_reward included.
C21_LevelAfterAchievementXp ==
    [][\A p \in Procs :
          (loc[p].ep = "rest" /\ Steps(p) /\ pc'[p] = "idle"
             /\ last'.resp = "201" /\ last'.rewards > 0)
              => profile'.level = level_for_xp(profile'.xp)]_vars

\* C22: in the achievement evaluation that follows a session, an achievement
\* the user has not earned and whose condition holds on the stored stats
\* gets exactly one UserAchievement row and raises experience_points by
\* exactly its experience_reward; an achievement that is earned already or
\* whose condition does not hold changes nothing.
C22_AchievementEvaluation ==
    [][\A p \in Procs :
          (Steps(p) /\ pc[p] \in {"a_check", "a_save"})
              => LET a == AchievementOf(Head(loc[p].todo))
                     earned == \E i \in DOMAIN achieved : achieved[i] = a.id
                 IN IF pc[p] = "a_save"
                    THEN profile'.xp = profile.xp + a.reward
                    ELSE IF ~earned /\ _check_achievement_condition(a, profile)
                    THEN achieved' = Append(achieved, a.id)
                    ELSE achieved' = achieved /\ profile' = profile]_vars

\* C23: two events with distinct idempotency keys applied to one user from
\* one starting state leave the same experience_points, the same level and
\* the same unlocked set in either order.
C23_OrderIndependent ==
    (calc.fn = "order" /\ calc.done)
        => /\ calc.out.ab.profile.xp = calc.out.ba.profile.xp
           /\ calc.out.ab.profile.level = calc.out.ba.profile.level
           /\ calc.out.ab.unlocked = calc.out.ba.unlocked

\* the duration of the event a handler applies, as its session row holds it
EventSeconds(ep) ==
    CASE ep = "ws" -> 5
      [] ep = "award" -> 30
      [] ep = "rest" -> RestSeconds
      [] OTHER -> 0

\* C24: the commit of a successful event raises experience_points by exactly
\* the event's XP and total_speaking_time by exactly the event's duration,
\* on the live connection, the award_xp webhook and the REST session create.
C24_ExactIncrements ==
    [][\A p \in Procs :
          (Steps(p) /\ pc[p] \in {"ws_commit", "aw_save", "r_save"}
             /\ profile' # profile)
              => /\ profile'.xp = profile.xp + loc[p].xp
                 /\ profile'.time = profile.time + EventSeconds(loc[p].ep)]_vars

\* the XP the one payload of each webhook grants
AuditXp(ep) ==
    IF ep = "award" THEN award_total_xp(HardWord.difficulty, HardWord.score)
    ELSE _calculate_conversation_xp(ShortTalk)

\* the HTTP status a caller gets
AuditStatus(uid) ==
    CASE uid = "none" -> "400"
      [] uid = "ghost" -> "404"
      [] uid = "abc" -> "500"
      [] OTHER -> "200"

\* C25: the audit log never influences business logic.  With requests
\* handled one at a time, every received webhook call goes on to be
\* processed whatever became of the insert of its WebhookLog row, and the
\* step that answers it leaves an outcome fixed by the caller, the payload
\* and the profile the handler read: the status by caller; for the user
\* the payload's XP added to the stored XP, the level raised to the level of
\* that XP, the rows of a newly reached level present, and the response
\* carrying the stored values; for anyone else nothing awarded.  Neither the
\* handler's log handle nor the log table enters the outcome.
C25_AuditLogIsInert ==
    [][/\ events' # events => \E p \in Procs : pc'[p] \in HookPcs
       /\ \A p \in Procs :
            (pc[p] \in HookPcs /\ pc'[p] = "idle") =>
              /\ last'.resp = AuditStatus(loc[p].uid)
              /\ unlocked' = unlocked \/ pc[p] \in {"aw_unlock", "cv_unlock"}
              /\ IF loc[p].uid = "u1"
                 THEN /\ last'.xp_earned = AuditXp(loc[p].ep)
                      /\ profile'.xp = loc[p].prof.xp
                      /\ last'.user_xp = profile'.xp
                      /\ last'.user_level = profile'.level
                      /\ profile'.level =
                           IF _calculate_level_from_xp(profile'.xp)
                                > loc[p].old_level
                           THEN _calculate_level_from_xp(profile'.xp)
                           ELSE loc[p].old_level
                      /\ profile'.level > loc[p].old_level =>
                           \A i \in 1..Len(level_requirements) :
                             level_requirements[i].lvl = profile'.level =>
                               \E u \in unlocked' :
                                 SameOption(u, level_requirements[i])
                 ELSE /\ profile' = profile
                      /\ unlocked' = unlocked]_vars

\* the user has been awarded XP and answered 200 by a call whose log row
\* was never inserted, and a row whose saves raise is still pending after
\* its call has been answered
C25_AwardedWithoutLog ==
    /\ Quiescent /\ last.resp = "200" /\ last.xp_earned > 0
    /\ profile.xp > 0
    /\ Len(logs) < events
    /\ \E h \in 1..Len(logs) : logs[h].stuck /\ logs[h].status = "pending"

\* C26: XP for one conversation is awarded at most once on the feedback
\* path.  A feedback submission for a conversation that was already scored
\* when it arrived changes neither the profile nor the conversation record.
C26_FeedbackScoredOnce ==
    [][\A p \in Procs :
         (loc[p].ep = "feedback" /\ loc[p].dup /\ Steps(p))
            => /\ profile' = profile
               /\ convs' = convs]_vars

\* C27: improvement_score stays within [0, 100] whatever conversation
\* sessions are created, feedback is submitted and speech sessions are
\* created, also while some conversation sessions have no feedback yet.
C27_ImprovementScoreInRange ==
    /\ profile.improvement_score.num >= 0
    /\ profile.improvement_score.num <= 100 * profile.improvement_score.den

\* C28: unlock status is re-derivable from level and catalog.  In every
\* options listing, a choice whose catalog level is at most the level the
\* listing read from the profile is reported unlocked, with or without an
\* UnlockedCustomization row, and a choice above that level is reported
\* unlocked only if a row for it exists.
C28_UnlockedFromLevelOrRow ==
    [][\A p \in Procs :
         (pc[p] = "op_list" /\ pc'[p] = "idle") =>
            \A o \in option_catalog :
               LET shown == [type |-> o.type, value |-> o.value]
                               \in last'.options
                   has_row == \E r \in unlocked : SameOption(r, o)
               IN /\ o.lvl <= loc[p].prof.level => shown
                  /\ (shown /\ o.lvl > loc[p].prof.level) => has_row]_vars

\* a listing for a level-1 user who holds the rows of level 2: brown is
\* reported unlocked without a row, black is reported because of its row,
\* white is not reported
C28_ListedWithoutRow ==
    /\ last.ep = "options" /\ last.user_level = 1
    /\ [type |-> "body_color", value |-> "brown"] \in last.options
    /\ ~\E r \in unlocked : r.type = "body_color" /\ r.value = "brown"
    /\ [type |-> "body_color", value |-> "black"] \in last.options
    /\ [type |-> "body_color", value |-> "white"] \notin last.options

\* experience_earned summed over the scored ConversationSession records
ScoredXp ==
    LET RECURSIVE Sum(_)
        Sum(S) == IF S = {} THEN 0
                  ELSE LET c == CHOOSE c \in S : TRUE
                       IN convs[c].experience_earned + Sum(S \ {c})
    IN Sum({c \in ConversationIds : convs[c].session_rating > 0})

\* C29: ledger conservation.  Whenever no handler is running,
\* experience_points equals the experience_gained of the SpeechSession
\* records plus the experience_earned of the scored ConversationSession
\* records plus the rewards of the earned achievements: no entry point adds
\* XP without a record that accounts for it.
C29_LedgerConserved ==
    Quiescent =>
        profile.xp = SumXp(sessions) + ScoredXp + SumRewards(achieved)

\* C30: every success response of the award_xp webhook is self-consistent
\* with the stored profile: new_level is not below old_level, user_level is
\* new_level and the level stored after the call, user_xp is the stored
\* experience_points.
C30_AwardResponseConsistent ==
    [][\A p \in Procs :
         (pc[p] = "aw_finish" /\ pc'[p] = "idle" /\ last'.resp = "200") =>
            /\ last'.new_level >= last'.old_level
            /\ last'.user_level = last'.new_level
            /\ last'.user_level = profile'.level
            /\ last'.user_xp = profile'.xp]_vars
====
